---- MODULE Spec2Model ----
(***************************************************************************)
(* Seat reservation pipeline of actors-seat-map (src/main.go).             *)
(*                                                                         *)
(* Four specifications share the inventory model:                          *)
(*   Spec       the running program: HTTP handlers, the four actors and    *)
(*              their unbuffered mailboxes, the inventory seeded by        *)
(*              NewInventoryActor;                                         *)
(*   SpecSeeded the same pipeline over an inventory holding two events     *)
(*              whose seats use the same seat ids;                         *)
(*   SpecConc   two goroutines calling ReserveTicket concurrently, one     *)
(*              statement at a time;                                       *)
(*   SpecRead   SpecConc beside a reader goroutine that uses the           *)
(*              accessors, which take no lock.                             *)
(***************************************************************************)
EXTENDS Integers, Sequences, FiniteSets, TLC

\* ------------------------------------------------------------------ bounds
\* Seats per row of the seeded event (10 in the source).
SeatsPerRow == 2
\* Longest seat_ids list a request carries.
MaxSeatIDs == 2
\* Number of POST /reserve requests the boundary submits.
MaxRequests == 2

\* Rows of the seeded event (A..E in the source, one row here).
Rows == <<"A">>

\* ------------------------------------------------------------- input sets
UserIDs == {"u1", "u2"}
EventIDs == {"event_1", "event_2"}
UnknownSeatID == "seat-Z-99"

\* fmt.Sprintf("%02d", n)
Sprintf02d(n) == IF n < 10 THEN "0" \o ToString(n) ELSE ToString(n)

\* "seat-" + row + "-" + seatNumStr
SeatIDOf(row, n) == "seat-" \o row \o "-" \o Sprintf02d(n)

SeededSeatIDs == {SeatIDOf(Rows[r], n) : r \in DOMAIN Rows, n \in 1..SeatsPerRow}

SeatIDInputs == SeededSeatIDs \cup {UnknownSeatID}

\* Every seat_ids list of at most MaxSeatIDs entries, repeated ids and the
\* empty list included (the JSON field is an array, not a set).
SeatIDLists == UNION {[1..n -> SeatIDInputs] : n \in 0..MaxSeatIDs}

\* ReservationRequest{UserID, EventID, SeatIDs}
ReservationRequest == [UserID : UserIDs, EventID : EventIDs, SeatIDs : SeatIDLists]

\* ------------------------------------------------------------------- maps
\* A Go map is a function whose domain is its key set.
EmptyMap == <<>>

HasKey(m, k) == k \in DOMAIN m

\* m[k] = v
MapSet(m, k, v) == [x \in (DOMAIN m) \cup {k} |-> IF x = k THEN v ELSE m[x]]

\* Zero values read from a missing key.
ZeroSeat == [ID |-> "", Row |-> "", Seat |-> 0, Status |-> ""]
ZeroEvent == [ID |-> "", Name |-> "", Seats |-> EmptyMap]

\* a.baskets[userID]: nil (the empty slice) for a missing key
BasketOf(baskets, userID) == IF HasKey(baskets, userID) THEN baskets[userID] ELSE <<>>

\* -------------------------------------------------------------- inventory
\* The fifty-seat loop of NewInventoryActor for one event.
SeedSeats ==
    [id \in SeededSeatIDs |->
        LET r == CHOOSE r \in DOMAIN Rows : \E n \in 1..SeatsPerRow : SeatIDOf(Rows[r], n) = id
            n == CHOOSE n \in 1..SeatsPerRow : SeatIDOf(Rows[r], n) = id
        IN [ID |-> id, Row |-> Rows[r], Seat |-> n, Status |-> "Available"]]

SeedEvent(id, name) == [ID |-> id, Name |-> name, Seats |-> SeedSeats]

\* The InventoryActor NewInventoryActor returns: one event, no tickets, no
\* baskets.
NewInventoryActor ==
    [tickets |-> EmptyMap,
     events  |-> MapSet(EmptyMap, "event_1", SeedEvent("event_1", "Event 1")),
     baskets |-> EmptyMap]

\* An InventoryActor value built with two events over the same seat ids.
TwoEventInventory ==
    [tickets |-> EmptyMap,
     events  |-> MapSet(MapSet(EmptyMap, "event_1", SeedEvent("event_1", "Event 1")),
                        "event_2", SeedEvent("event_2", "Event 2")),
     baskets |-> EmptyMap]

\* SeatOK testing every seat of the event instead of the requested one.
SeatOKWholeEvent(event, seatID) ==
    /\ HasKey(event.Seats, seatID)
    /\ \A s \in DOMAIN event.Seats : event.Seats[s].Status = "Available"

\* The test of the first loop: the seat exists and is Available.
SeatOK(event, seatID) ==
    HasKey(event.Seats, seatID) /\ event.Seats[seatID].Status = "Available"

\* First pass: fail on the first seat that is missing or not Available.
RECURSIVE ValidateFrom(_, _, _)
ValidateFrom(event, seatIDs, i) ==
    IF i > Len(seatIDs) THEN TRUE
    ELSE IF ~SeatOK(event, seatIDs[i]) THEN FALSE
    ELSE ValidateFrom(event, seatIDs, i + 1)

ValidateSeats(event, seatIDs) == ValidateFrom(event, seatIDs, 1)

\* seat := event.Seats[seatID]; seat.Status = "Reserved"
ReservedSeat(event, seatID) ==
    LET seat == IF HasKey(event.Seats, seatID) THEN event.Seats[seatID] ELSE ZeroSeat
    IN [seat EXCEPT !.Status = "Reserved"]

\* Ticket{ID: seat.ID, UserID, EventID, SeatID}; Status is left at its zero
\* value and ReservedAt (one time.Now() per call) is not modelled.
NewTicket(seat, userID, eventID, seatID) ==
    [ID |-> seat.ID, UserID |-> userID, Status |-> "", SeatID |-> seatID, EventID |-> eventID]

\* MutateStep with the write-back event.Seats[seatID] = seat left out.
MutateStepNoWriteBack(st, userID, eventID, seatID) ==
    LET seat   == ReservedSeat([Seats |-> st.Seats], seatID)
        ticket == NewTicket(seat, userID, eventID, seatID)
    IN [Seats           |-> st.Seats,
        tickets         |-> MapSet(st.tickets, ticket.ID, ticket),
        reservedTickets |-> Append(st.reservedTickets, ticket)]

\* MutateStep marking every seat of the event, not only the requested one.
MutateStepWholeEvent(st, userID, eventID, seatID) ==
    LET seat   == ReservedSeat([Seats |-> st.Seats], seatID)
        ticket == NewTicket(seat, userID, eventID, seatID)
    IN [Seats           |-> [s \in DOMAIN st.Seats |-> [st.Seats[s] EXCEPT !.Status = "Reserved"]],
        tickets         |-> MapSet(st.tickets, ticket.ID, ticket),
        reservedTickets |-> Append(st.reservedTickets, ticket)]

\* One iteration of the second loop on (Seats, tickets, reservedTickets).
MutateStep(st, userID, eventID, seatID) ==
    LET seat   == ReservedSeat([Seats |-> st.Seats], seatID)
        ticket == NewTicket(seat, userID, eventID, seatID)
    IN [Seats           |-> MapSet(st.Seats, seatID, seat),
        tickets         |-> MapSet(st.tickets, ticket.ID, ticket),
        reservedTickets |-> Append(st.reservedTickets, ticket)]

\* Second pass over seatIDs[i..].
RECURSIVE MutateFrom(_, _, _, _, _)
MutateFrom(st, userID, eventID, seatIDs, i) ==
    IF i > Len(seatIDs) THEN st
    ELSE MutateFrom(MutateStep(st, userID, eventID, seatIDs[i]), userID, eventID, seatIDs, i + 1)

\* AppendBasket assigning the new batch instead of appending it.
AppendBasketOverwrite(baskets, userID, reservedTickets) ==
    MapSet(baskets, userID, reservedTickets)

\* a.baskets[userID] = append(a.baskets[userID], reservedTickets...)
AppendBasket(baskets, userID, reservedTickets) ==
    MapSet(baskets, userID, BasketOf(baskets, userID) \o reservedTickets)

\* ReserveTicket with the two loops fused: each seat is checked and reserved
\* in turn, so a later seat's failure leaves the earlier ones reserved.
RECURSIVE OnePassFrom(_, _, _, _, _)
OnePassFrom(st, userID, eventID, seatIDs, i) ==
    IF i > Len(seatIDs) THEN [st |-> st, ok |-> TRUE]
    ELSE IF ~SeatOK([Seats |-> st.Seats], seatIDs[i]) THEN [st |-> st, ok |-> FALSE]
    ELSE OnePassFrom(MutateStep(st, userID, eventID, seatIDs[i]), userID, eventID, seatIDs, i + 1)

ReserveTicketOnePass(inv, userID, eventID, seatIDs) ==
    IF ~HasKey(inv.events, eventID)
    THEN [inv |-> inv, tickets |-> <<>>, ok |-> FALSE]
    ELSE LET event == inv.events[eventID]
             r == OnePassFrom([Seats |-> event.Seats, tickets |-> inv.tickets,
                               reservedTickets |-> <<>>], userID, eventID, seatIDs, 1)
             after == [tickets |-> r.st.tickets,
                       events  |-> MapSet(inv.events, eventID,
                                          [event EXCEPT !.Seats = r.st.Seats]),
                       baskets |-> inv.baskets]
         IN IF r.ok
            THEN [inv |-> [after EXCEPT !.baskets =
                              AppendBasket(inv.baskets, userID, r.st.reservedTickets)],
                  tickets |-> r.st.reservedTickets, ok |-> TRUE]
            ELSE [inv |-> after, tickets |-> <<>>, ok |-> FALSE]

\* ReserveTicket run to its return with the lock held throughout:
\* [inv: the inventory afterwards, tickets: the returned slice, ok].
ReserveTicket(inv, userID, eventID, seatIDs) ==
    IF ~HasKey(inv.events, eventID)
    THEN [inv |-> inv, tickets |-> <<>>, ok |-> FALSE]
    ELSE LET event == inv.events[eventID] IN
         IF ~ValidateSeats(event, seatIDs)
         THEN [inv |-> inv, tickets |-> <<>>, ok |-> FALSE]
         ELSE LET st == MutateFrom([Seats |-> event.Seats, tickets |-> inv.tickets,
                                    reservedTickets |-> <<>>],
                                   userID, eventID, seatIDs, 1)
              IN [inv |-> [tickets |-> st.tickets,
                           events  |-> MapSet(inv.events, eventID,
                                              [event EXCEPT !.Seats = st.Seats]),
                           baskets |-> AppendBasket(inv.baskets, userID, st.reservedTickets)],
                  tickets |-> st.reservedTickets,
                  ok |-> TRUE]

\* -------------------------------------------------------------- accessors
\* strings.ToLower on the ids the model uses.
ToLower(s) ==
    CASE s = "EVENT_1" -> "event_1"
      [] s = "EVENT_2" -> "event_2"
      [] OTHER -> s

\* a.events[strings.ToLower(eventID)]
GetEvent(inv, eventID) ==
    IF HasKey(inv.events, ToLower(eventID)) THEN inv.events[ToLower(eventID)] ELSE ZeroEvent

\* a.baskets[userID] (GetBasket of the earlier revision of the file)
GetBasket(inv, userID) == BasketOf(inv.baskets, userID)

\* The two lookups with the keys the wrong way round.
SeatAtKeysSwapped(inv, eventID, seatID) ==
    LET event == IF HasKey(inv.events, seatID) THEN inv.events[seatID] ELSE ZeroEvent
    IN IF HasKey(event.Seats, eventID) THEN event.Seats[eventID] ELSE ZeroSeat

\* a.events[eventID].Seats[seatID], zero values for missing keys
SeatAt(inv, eventID, seatID) ==
    LET event == IF HasKey(inv.events, eventID) THEN inv.events[eventID] ELSE ZeroEvent
    IN IF HasKey(event.Seats, seatID) THEN event.Seats[seatID] ELSE ZeroSeat

\* Ticket.Seat(): "%s-%d" of the seat's row and number, through GetEvent
TicketSeat(inv, t) ==
    LET event == GetEvent(inv, t.EventID)
        seat  == IF HasKey(event.Seats, t.SeatID) THEN event.Seats[t.SeatID] ELSE ZeroSeat
    IN seat.Row \o "-" \o ToString(seat.Seat)

RECURSIVE BasketHTMLFrom(_, _, _)
BasketHTMLFrom(inv, basket, i) ==
    IF i > Len(basket) THEN ""
    ELSE "<li>" \o TicketSeat(inv, basket[i]) \o "</li>" \o BasketHTMLFrom(inv, basket, i + 1)

GetBasketAsHTML(inv, userID) == BasketHTMLFrom(inv, BasketOf(inv.baskets, userID), 1)

GetSeatAsHTML(inv, eventID, seatID) ==
    LET seat == SeatAt(inv, eventID, seatID)
    IN "<button class=\"" \o seat.Status \o "\" data-seat-id=\"" \o seat.ID
       \o "\" sse-swap=\"" \o seat.ID \o "\">" \o ToString(seat.Seat) \o "</button>"

\* ------------------------------------------------------------------ state
VARIABLES
    inventory,          \* the InventoryActor's tickets, events and baskets
    handlers,           \* the ReserveHandler goroutines, one per request
    userActor,          \* the UserActor goroutine: pc and the request it holds
    reservationActor,   \* the ReservationActor goroutine: pc and the batch it holds
    paymentActor,       \* the PaymentActor goroutine: pc and the batch it holds
    crashed,            \* a goroutine panicked: the process is gone
    accepted,           \* requests the UserActor took from its mailbox, in order
    calls,              \* ReserveTicket calls of the ReservationActor with their results
    published,          \* sseServer.Publish calls, in order
    paid,               \* batches the PaymentActor took from its mailbox, in order
    notified,           \* lines the NotificationActor printed, in order
    delivered,          \* batches the NotificationActor took from its mailbox, in order
    mu,                 \* holder of InventoryActor.mu ("" when unlocked)
    thr,                \* the goroutines of SpecConc inside ReserveTicket
    lockOrder,          \* the goroutines of SpecConc in the order they took mu
    stable,             \* the inventory as of the last time mu was released
    obs,                \* what the reader's last accessor call returned
    shown               \* the EventShowHandler goroutine and the Event it holds

pipeVars == <<handlers, userActor, reservationActor, paymentActor, crashed,
              accepted, calls, published, paid, notified, delivered>>
concVars == <<mu, thr, lockOrder, stable, obs, shown>>
vars == <<inventory, handlers, userActor, reservationActor, paymentActor, crashed,
          accepted, calls, published, paid, notified, delivered,
          mu, thr, lockOrder, stable, obs, shown>>

NoRequest == [UserID |-> "", EventID |-> "", SeatIDs |-> <<>>]
Threads == {"g1", "g2"}
IdleThread ==
    [pc |-> "idle", userID |-> "", eventID |-> "", seatIDs |-> <<>>, i |-> 0,
     reservedTickets |-> <<>>, tickets |-> <<>>, ok |-> FALSE]
NoObs == [call |-> "none", ret |-> "", committed |-> ""]
NoShown ==
    [pc |-> "idle", event |-> [ID |-> "", Name |-> "", SeatsOf |-> ""], quiet |-> FALSE,
     atReturn |-> ZeroEvent, page |-> ZeroEvent]

InitPipeline ==
    /\ handlers = [h \in 1..MaxRequests |-> [pc |-> "idle", req |-> NoRequest, resp |-> ""]]
    /\ userActor = [pc |-> "recv", req |-> NoRequest]
    /\ reservationActor = [pc |-> "recv", tickets |-> <<>>]
    /\ paymentActor = [pc |-> "recv", tickets |-> <<>>]
    /\ crashed = FALSE
    /\ accepted = <<>>
    /\ calls = <<>>
    /\ published = <<>>
    /\ paid = <<>>
    /\ notified = <<>>
    /\ delivered = <<>>

InitConc ==
    /\ mu = ""
    /\ thr = [t \in Threads |-> IdleThread]
    /\ lockOrder = <<>>
    /\ obs = NoObs
    /\ shown = NoShown

Init ==
    /\ inventory = NewInventoryActor
    /\ stable = NewInventoryActor
    /\ InitPipeline
    /\ InitConc

InitSeeded ==
    /\ inventory = TwoEventInventory
    /\ stable = TwoEventInventory
    /\ InitPipeline
    /\ InitConc

\* --------------------------------------------------------------- pipeline
\* Handler goroutines are numbered in the order their requests arrive.
Arrives(h) == IF h = 1 THEN TRUE ELSE handlers[h - 1].pc # "idle"

\* POST /reserve with a body that decodes: the handler blocks on
\* user.mailbox <- req.
ReserveHandler(h, req) ==
    /\ ~crashed
    /\ handlers[h].pc = "idle"
    /\ Arrives(h)
    /\ handlers' = [handlers EXCEPT ![h] = [pc |-> "send", req |-> req, resp |-> ""]]
    /\ UNCHANGED <<inventory, userActor, reservationActor, paymentActor, crashed,
                   accepted, calls, published, paid, notified, delivered, concVars>>

\* POST /reserve with a body that does not decode: 400, nothing is sent.
ReserveHandlerBadRequest(h) ==
    /\ ~crashed
    /\ handlers[h].pc = "idle"
    /\ Arrives(h)
    /\ handlers' = [handlers EXCEPT ![h] = [pc |-> "done", req |-> NoRequest, resp |-> "400"]]
    /\ UNCHANGED <<inventory, userActor, reservationActor, paymentActor, crashed,
                   accepted, calls, published, paid, notified, delivered, concVars>>

\* A range loop that takes the next message while the last one is still on
\* its way out.
AtReceiveAlways(actor) == TRUE

\* for msg := range actor.mailbox: the goroutine is at the receive only
\* after the loop body, its send included, has returned.
AtReceive(actor) == actor.pc = "recv"

\* The UserActor's range loop takes a request from its unbuffered mailbox,
\* which completes the handler's send; it then blocks on
\* reservation.mailbox <- req.
UserActorReceive(h) ==
    /\ ~crashed
    /\ handlers[h].pc = "send"
    /\ AtReceive(userActor)
    /\ handlers' = [handlers EXCEPT ![h].pc = "respond"]
    /\ userActor' = [pc |-> "send", req |-> handlers[h].req]
    /\ accepted' = Append(accepted, handlers[h].req)
    /\ UNCHANGED <<inventory, reservationActor, paymentActor, crashed,
                   calls, published, paid, notified, delivered, concVars>>

\* A handler that answers only once the stages have finished with the
\* request.
SendCompletedAndProcessed(h) ==
    /\ handlers[h].pc = "respond"
    /\ userActor.pc = "recv" /\ reservationActor.pc = "recv" /\ paymentActor.pc = "recv"

\* user.mailbox <- req has returned: the UserActor took the request.
SendCompleted(h) == handlers[h].pc = "respond"

\* The handler, its send done, writes the acknowledgment.
ReserveHandlerRespond(h) ==
    /\ ~crashed
    /\ SendCompleted(h)
    /\ handlers' = [handlers EXCEPT ![h] = [@ EXCEPT !.pc = "done",
                                                    !.resp = "Ticket request received"]]
    /\ UNCHANGED <<inventory, userActor, reservationActor, paymentActor, crashed,
                   accepted, calls, published, paid, notified, delivered, concVars>>

\* The Publish calls of a successful reservation: one on the user's stream
\* with the basket, then one per entry of req.SeatIDs on the event's stream.
RECURSIVE SeatEventsFrom(_, _, _)
SeatEventsFrom(inv, req, i) ==
    IF i > Len(req.SeatIDs) THEN <<>>
    ELSE <<[Stream |-> req.EventID, Event |-> req.SeatIDs[i],
            Data |-> GetSeatAsHTML(inv, req.EventID, req.SeatIDs[i])]>>
         \o SeatEventsFrom(inv, req, i + 1)

PublishedFor(inv, req) ==
    <<[Stream |-> req.UserID, Event |-> "reservation",
       Data |-> GetBasketAsHTML(inv, req.UserID)]>>
    \o SeatEventsFrom(inv, req, 1)

\* The branch on success with the else branch forwarding as well.
ReservationActorForwardAlways(r) == [pc |-> "send", tickets |-> r.tickets]

\* if success { ...; payment.mailbox <- tickets } else { print }: where the
\* loop body leaves the ReservationActor.
ReservationActorForward(r) ==
    IF r.ok THEN [pc |-> "send", tickets |-> r.tickets]
    ELSE [pc |-> "recv", tickets |-> <<>>]

\* The ReservationActor's range loop takes a request (completing the
\* UserActor's send) and runs the loop body up to its next blocking point:
\* on success it publishes and blocks on payment.mailbox <- tickets, on
\* failure it is back at the receive.
ReservationActorReceive ==
    /\ ~crashed
    /\ userActor.pc = "send"
    /\ AtReceive(reservationActor)
    /\ LET req == userActor.req
           r   == ReserveTicket(inventory, req.UserID, req.EventID, req.SeatIDs)
       IN /\ inventory' = r.inv
          /\ stable' = r.inv
          /\ calls' = Append(calls, [req |-> req, before |-> inventory,
                                   tickets |-> r.tickets, ok |-> r.ok])
          /\ published' = IF r.ok THEN published \o PublishedFor(r.inv, req) ELSE published
          /\ reservationActor' = ReservationActorForward(r)
    /\ userActor' = [pc |-> "recv", req |-> NoRequest]
    /\ UNCHANGED <<handlers, paymentActor, crashed, accepted, paid, notified,
                   delivered, mu, thr, lockOrder, obs, shown>>

\* A PaymentActor that passes on only the first ticket of the batch.
PaymentActorForwardFirst(tickets) ==
    IF tickets = <<>> THEN tickets ELSE <<tickets[1]>>

\* notifier.mailbox <- tickets: the slice that was received.
PaymentActorForward(tickets) == tickets

\* The PaymentActor's range loop takes a batch (completing the
\* ReservationActor's send), prints, and blocks on notifier.mailbox <- tickets.
PaymentActorReceive ==
    /\ ~crashed
    /\ reservationActor.pc = "send"
    /\ AtReceive(paymentActor)
    /\ paymentActor' = [pc |-> "send", tickets |-> PaymentActorForward(reservationActor.tickets)]
    /\ paid' = Append(paid, reservationActor.tickets)
    /\ reservationActor' = [pc |-> "recv", tickets |-> <<>>]
    /\ UNCHANGED <<inventory, handlers, userActor, crashed, accepted, calls,
                   published, notified, delivered, concVars>>

\* The NotificationActor's range loop takes a batch (completing the
\* PaymentActor's send) and prints len(tickets) and tickets[0].UserID; the
\* index panics on an empty batch and the panic ends the process.
NotificationActorReceive ==
    /\ ~crashed
    /\ paymentActor.pc = "send"
    /\ paymentActor' = [pc |-> "recv", tickets |-> <<>>]
    /\ delivered' = Append(delivered, paymentActor.tickets)
    /\ IF Len(paymentActor.tickets) = 0
       THEN /\ crashed' = TRUE
            /\ UNCHANGED notified
       ELSE /\ notified' = Append(notified, [n |-> Len(paymentActor.tickets),
                                             UserID |-> paymentActor.tickets[1].UserID])
            /\ UNCHANGED crashed
    /\ UNCHANGED <<inventory, handlers, userActor, reservationActor, accepted, calls,
                   published, paid, concVars>>

Next ==
    \/ \E h \in 1..MaxRequests, req \in ReservationRequest : ReserveHandler(h, req)
    \/ \E h \in 1..MaxRequests : ReserveHandlerBadRequest(h)
    \/ \E h \in 1..MaxRequests : UserActorReceive(h)
    \/ \E h \in 1..MaxRequests : ReserveHandlerRespond(h)
    \/ ReservationActorReceive
    \/ PaymentActorReceive
    \/ NotificationActorReceive

Spec == Init /\ [][Next]_vars

SpecSeeded == InitSeeded /\ [][Next]_vars

\* The Go scheduler runs every goroutine that can run: a stage whose receive
\* has a sender waiting, and a handler whose send has completed.
SpecFair ==
    /\ Init /\ [][Next]_vars
    /\ WF_vars(\E h \in 1..MaxRequests : UserActorReceive(h))
    /\ WF_vars(\E h \in 1..MaxRequests : ReserveHandlerRespond(h))
    /\ WF_vars(ReservationActorReceive)
    /\ WF_vars(PaymentActorReceive)
    /\ WF_vars(NotificationActorReceive)

\* ------------------------------------------------- concurrent ReserveTicket
\* sync.Mutex with its exclusion left out: Lock never waits.
MutexFreeAlways(m) == TRUE

\* a.mu.Lock() returns only when no goroutine holds the mutex.
MutexFree(m) == m = ""

\* The shared Seats map of the event a goroutine works on (its local event
\* is a copy of the struct, whose Seats field is the same map).
SharedSeats(t) == inventory.events[thr[t].eventID].Seats

\* A goroutine calls ReserveTicket(userID, eventID, seatIDs). User ids are
\* opaque and the two goroutines alike, so g1 is the one that calls as "u1"
\* and binds its arguments first; which of them locks first stays open.
Call(t, userID, eventID, seatIDs) ==
    /\ thr[t].pc = "idle"
    /\ IF t = "g1" THEN userID = "u1" ELSE thr["g1"].pc # "idle"
    /\ thr' = [thr EXCEPT ![t] = [IdleThread EXCEPT !.pc = "lock", !.userID = userID,
                                                    !.eventID = eventID, !.seatIDs = seatIDs]]
    /\ UNCHANGED <<inventory, pipeVars, mu, lockOrder, stable, obs, shown>>

\* a.mu.Lock()
Lock(t) ==
    /\ thr[t].pc = "lock"
    /\ MutexFree(mu)
    /\ mu' = t
    /\ lockOrder' = Append(lockOrder, t)
    /\ thr' = [thr EXCEPT ![t].pc = "check"]
    /\ UNCHANGED <<inventory, pipeVars, stable, obs, shown>>

\* event, exists := a.events[eventID]; if !exists { return nil, false }
CheckEvent(t) ==
    /\ thr[t].pc = "check"
    /\ thr' = IF HasKey(inventory.events, thr[t].eventID)
              THEN [thr EXCEPT ![t].pc = "validate", ![t].i = 1]
              ELSE [thr EXCEPT ![t].pc = "unlock", ![t].tickets = <<>>, ![t].ok = FALSE]
    /\ UNCHANGED <<inventory, pipeVars, mu, lockOrder, stable, obs, shown>>

\* One iteration of the first loop, or its exit.
Validate(t) ==
    /\ thr[t].pc = "validate"
    /\ thr' = IF thr[t].i > Len(thr[t].seatIDs)
              THEN [thr EXCEPT ![t].pc = "mutate", ![t].i = 1, ![t].reservedTickets = <<>>]
              ELSE IF ~SeatOK([Seats |-> SharedSeats(t)], thr[t].seatIDs[thr[t].i])
              THEN [thr EXCEPT ![t].pc = "unlock", ![t].tickets = <<>>, ![t].ok = FALSE]
              ELSE [thr EXCEPT ![t].i = @ + 1]
    /\ UNCHANGED <<inventory, pipeVars, mu, lockOrder, stable, obs, shown>>

\* One iteration of the second loop, writing the shared Seats map and the
\* tickets map in place, or its exit.
Mutate(t) ==
    /\ thr[t].pc = "mutate"
    /\ IF thr[t].i > Len(thr[t].seatIDs)
       THEN /\ thr' = [thr EXCEPT ![t].pc = "commit"]
            /\ UNCHANGED inventory
       ELSE LET st == MutateStep([Seats |-> SharedSeats(t), tickets |-> inventory.tickets,
                                  reservedTickets |-> thr[t].reservedTickets],
                                 thr[t].userID, thr[t].eventID, thr[t].seatIDs[thr[t].i])
            IN /\ inventory' = [inventory EXCEPT !.tickets = st.tickets,
                                                 !.events[thr[t].eventID].Seats = st.Seats]
               /\ thr' = [thr EXCEPT ![t].i = @ + 1, ![t].reservedTickets = st.reservedTickets]
    /\ UNCHANGED <<pipeVars, mu, lockOrder, stable, obs, shown>>

\* a.events[eventID] = event (the same Seats map again); the basket append;
\* return reservedTickets, true.
Commit(t) ==
    /\ thr[t].pc = "commit"
    /\ inventory' = [inventory EXCEPT !.baskets =
                        AppendBasket(inventory.baskets, thr[t].userID, thr[t].reservedTickets)]
    /\ thr' = [thr EXCEPT ![t].pc = "unlock", ![t].tickets = thr[t].reservedTickets,
                          ![t].ok = TRUE]
    /\ UNCHANGED <<pipeVars, mu, lockOrder, stable, obs, shown>>

\* The deferred a.mu.Unlock() on either return.
Unlock(t) ==
    /\ thr[t].pc = "unlock"
    /\ mu' = ""
    /\ stable' = inventory
    /\ thr' = [thr EXCEPT ![t].pc = "done"]
    /\ UNCHANGED <<inventory, pipeVars, lockOrder, obs, shown>>

\* The inventories a reader's unsynchronised read may draw from while a
\* writer is at work: the maps as they are now, or as they were when the
\* mutex was last released (the read races with the writes).
RacyViews == {inventory, stable}

\* The accessors take no lock; each call returns what it reads, and
\* committed records what the inventory held when the mutex was last free.
\* The reader goroutine makes one accessor call.
GetEventCall(eventID) ==
    /\ obs.call = "none"
    /\ \E v \in RacyViews :
          obs' = [call |-> "GetEvent", ret |-> GetEvent(v, eventID),
                  committed |-> GetEvent(stable, eventID)]
    /\ UNCHANGED <<inventory, pipeVars, mu, thr, lockOrder, stable, shown>>

GetBasketCall(userID) ==
    /\ obs.call = "none"
    /\ \E v \in RacyViews :
          obs' = [call |-> "GetBasket", ret |-> GetBasket(v, userID),
                  committed |-> GetBasket(stable, userID)]
    /\ UNCHANGED <<inventory, pipeVars, mu, thr, lockOrder, stable, shown>>

GetSeatAsHTMLCall(eventID, seatID) ==
    /\ obs.call = "none"
    /\ \E v \in RacyViews :
          obs' = [call |-> "GetSeatAsHTML", ret |-> GetSeatAsHTML(v, eventID, seatID),
                  committed |-> GetSeatAsHTML(stable, eventID, seatID)]
    /\ UNCHANGED <<inventory, pipeVars, mu, thr, lockOrder, stable, shown>>

GetBasketAsHTMLCall(userID) ==
    /\ obs.call = "none"
    /\ \E v \in RacyViews :
          obs' = [call |-> "GetBasketAsHTML", ret |-> GetBasketAsHTML(v, userID),
                  committed |-> GetBasketAsHTML(stable, userID)]
    /\ UNCHANGED <<inventory, pipeVars, mu, thr, lockOrder, stable, shown>>

NextConc ==
    \/ \E t \in Threads, u \in UserIDs, e \in EventIDs, ids \in SeatIDLists : Call(t, u, e, ids)
    \/ \E t \in Threads : Lock(t)
    \/ \E t \in Threads : CheckEvent(t)
    \/ \E t \in Threads : Validate(t)
    \/ \E t \in Threads : Mutate(t)
    \/ \E t \in Threads : Commit(t)
    \/ \E t \in Threads : Unlock(t)

NextRead ==
    \/ NextConc
    \/ \E e \in EventIDs \cup {"EVENT_1"} : GetEventCall(e)
    \/ \E u \in UserIDs : GetBasketCall(u)
    \/ \E e \in EventIDs, s \in SeatIDInputs : GetSeatAsHTMLCall(e, s)
    \/ \E u \in UserIDs : GetBasketAsHTMLCall(u)

SpecConc == Init /\ [][NextConc]_vars

SpecRead == Init /\ [][NextRead]_vars

\* ------------------------------------------------------- EventShowHandler
\* The Event struct GetEvent returns by value: ID and Name are copied, Seats
\* is a Go map, so the copy refers to the inventory's own map (SeatsOf names
\* the event whose map it is, "" for the nil map of the zero Event).
ReturnedEvent(inv, eventID) ==
    LET event == GetEvent(inv, eventID)
    IN [ID |-> event.ID, Name |-> event.Name,
        SeatsOf |-> IF HasKey(inv.events, ToLower(eventID)) THEN ToLower(eventID) ELSE ""]

\* The Event a holder of the returned struct reads through it, given what
\* the inventory's maps hold at the time of the read.
SeenThrough(inv, held) ==
    [ID |-> held.ID, Name |-> held.Name,
     Seats |-> IF held.SeatsOf = "" THEN EmptyMap ELSE inv.events[held.SeatsOf].Seats]

\* event := inventory.GetEvent(eventID): the handler holds the returned
\* struct; atReturn is what the struct shows at that moment, quiet whether
\* the mutex was free then (no ReserveTicket call was at work).
EventShowGetEvent(eventID) ==
    /\ shown.pc = "idle"
    /\ \E v \in RacyViews :
          shown' = [pc |-> "execute", event |-> ReturnedEvent(inventory, eventID),
                    quiet |-> (mu = ""), atReturn |-> GetEvent(v, eventID),
                    page |-> ZeroEvent]
    /\ UNCHANGED <<inventory, pipeVars, mu, thr, lockOrder, stable, obs>>

\* template.ParseFiles, then tmpl.Execute(w, event): the template reads the
\* seats through the struct the handler holds.
EventShowExecute ==
    /\ shown.pc = "execute"
    /\ \E v \in RacyViews :
          shown' = [shown EXCEPT !.pc = "done", !.page = SeenThrough(v, shown.event)]
    /\ UNCHANGED <<inventory, pipeVars, mu, thr, lockOrder, stable, obs>>

NextShow ==
    \/ NextConc
    \/ \E e \in EventIDs \cup {"EVENT_1"} : EventShowGetEvent(e)
    \/ EventShowExecute

SpecShow == Init /\ [][NextShow]_vars

\* ================================================================= claims
Last(q) == q[Len(q)]

IsPrefix(p, q) == Len(p) <= Len(q) /\ SubSeq(q, 1, Len(p)) = p

\* The step just taken ran ReserveTicket in the ReservationActor.
CallStep == Len(calls') = Len(calls) + 1

\* The request names an unknown event, or a seat that is missing from the
\* event or not Available.
Refused(inv, req) ==
    \/ req.EventID \notin DOMAIN inv.events
    \/ \E i \in 1..Len(req.SeatIDs) :
          \/ req.SeatIDs[i] \notin DOMAIN inv.events[req.EventID].Seats
          \/ inv.events[req.EventID].Seats[req.SeatIDs[i]].Status # "Available"

\* The batches of user u's successful calls among the first n, concatenated.
RECURSIVE ReturnedTo(_, _)
ReturnedTo(u, n) ==
    IF n = 0 THEN <<>>
    ELSE ReturnedTo(u, n - 1)
         \o (IF calls[n].ok /\ calls[n].req.UserID = u THEN calls[n].tickets ELSE <<>>)

\* The batches of the successful calls among the first n, in order.
RECURSIVE SuccessfulBatches(_)
SuccessfulBatches(n) ==
    IF n = 0 THEN <<>>
    ELSE SuccessfulBatches(n - 1) \o (IF calls[n].ok THEN <<calls[n].tickets>> ELSE <<>>)

\* All tickets of all baskets, as (user, position) pairs.
BasketEntries ==
    {e \in (DOMAIN inventory.baskets) \X (1..(MaxRequests * MaxSeatIDs)) :
        e[2] <= Len(inventory.baskets[e[1]])}

\* C1: a ReserveTicket call for an unknown event, or with a seat that is
\* missing or not Available, returns (no tickets, false) and leaves the seat
\* statuses, the ticket set and every basket as they were.
C1_RefusedCallChangesNothing ==
    [][(CallStep /\ Refused(inventory, Last(calls').req))
         => /\ Last(calls').tickets = <<>>
            /\ ~Last(calls').ok
            /\ inventory' = inventory]_vars

\* A two-seat request was refused on its second seat, after an earlier
\* reservation, while its first seat is still Available.
C1_Witness ==
    \E k \in DOMAIN calls :
        /\ k > 1
        /\ calls[k - 1].ok
        /\ ~calls[k].ok
        /\ Len(calls[k].req.SeatIDs) = 2
        /\ HasKey(inventory.events, calls[k].req.EventID)
        /\ LET seats == inventory.events[calls[k].req.EventID].Seats
               ids   == calls[k].req.SeatIDs
           IN /\ HasKey(seats, ids[1]) /\ seats[ids[1]].Status = "Available"
              /\ HasKey(seats, ids[2]) /\ seats[ids[2]].Status = "Reserved"

\* C2: a ReserveTicket call for a known event whose seats all exist and are
\* Available returns success with one ticket per requested seat in request
\* order, each with the caller's user id, the event id and the seat id;
\* afterwards every requested seat is Reserved and the batch is at the end of
\* the user's basket.
C2_AcceptedCallReservesAll ==
    [][(CallStep /\ ~Refused(inventory, Last(calls').req))
         => LET c == Last(calls') IN
            /\ c.ok
            /\ Len(c.tickets) = Len(c.req.SeatIDs)
            /\ \A i \in 1..Len(c.tickets) :
                  /\ c.tickets[i].UserID = c.req.UserID
                  /\ c.tickets[i].EventID = c.req.EventID
                  /\ c.tickets[i].SeatID = c.req.SeatIDs[i]
            /\ \A i \in 1..Len(c.req.SeatIDs) :
                  inventory'.events[c.req.EventID].Seats[c.req.SeatIDs[i]].Status = "Reserved"
            /\ BasketOf(inventory'.baskets, c.req.UserID)
                  = BasketOf(inventory.baskets, c.req.UserID) \o c.tickets]_vars

\* A request for two different seats succeeded after an earlier call.
C2_Witness ==
    \E k \in DOMAIN calls :
        /\ k > 1
        /\ calls[k].ok
        /\ Len(calls[k].tickets) = 2
        /\ calls[k].tickets[1].SeatID # calls[k].tickets[2].SeatID
        /\ Len(BasketOf(inventory.baskets, calls[k].req.UserID)) >= 2

\* C4: no two tickets, in the returned batches and in the baskets, reference
\* the same seat of the same event.
C4_NoSeatTicketedTwice ==
    /\ \A a, b \in BasketEntries :
          a # b => \/ inventory.baskets[a[1]][a[2]].EventID # inventory.baskets[b[1]][b[2]].EventID
                   \/ inventory.baskets[a[1]][a[2]].SeatID # inventory.baskets[b[1]][b[2]].SeatID
    /\ \A k \in DOMAIN calls : \A i, j \in DOMAIN calls[k].tickets :
          i # j => calls[k].tickets[i].SeatID # calls[k].tickets[j].SeatID

\* Tickets of the ticket set that reference seat s of event e.
TicketsFor(e, s) ==
    {k \in DOMAIN inventory.tickets :
        inventory.tickets[k].EventID = e /\ inventory.tickets[k].SeatID = s}

\* C5: a seat is Reserved iff the ticket set holds exactly one ticket for its
\* event and seat id, and an Available seat has none; also for an inventory
\* of two events whose seats share seat ids.
C5_ReservedIffOneTicket ==
    \A e \in DOMAIN inventory.events : \A s \in DOMAIN inventory.events[e].Seats :
        /\ inventory.events[e].Seats[s].Status = "Reserved"
              <=> Cardinality(TicketsFor(e, s)) = 1
        /\ inventory.events[e].Seats[s].Status = "Available"
              => TicketsFor(e, s) = {}

\* Every user's basket is the concatenation of the batches returned to that
\* user, in call order.
BasketsAreReturnedBatches ==
    \A u \in UserIDs : BasketOf(inventory.baskets, u) = ReturnedTo(u, Len(calls))

\* C6: each basket equals the concatenation, in order of success, of the
\* batches returned to its user (so K tickets after reservations totalling
\* K); a failed reservation adds nothing; every step leaves the old basket a
\* prefix of the new one.
C6_BasketAccumulates ==
    /\ BasketsAreReturnedBatches
    /\ [][/\ BasketsAreReturnedBatches'
          /\ \A u \in UserIDs :
                IsPrefix(BasketOf(inventory.baskets, u), BasketOf(inventory'.baskets, u))
          /\ (CallStep /\ ~Last(calls').ok) => inventory'.baskets = inventory.baskets]_vars

\* One user reserved twice and holds the tickets of both batches.
C6_Witness ==
    \E u \in UserIDs :
        /\ Cardinality({k \in DOMAIN calls : calls[k].ok /\ calls[k].req.UserID = u
                                              /\ calls[k].tickets # <<>>}) >= 2
        /\ Len(BasketOf(inventory.baskets, u)) >= 2

\* The Publish calls the step just taken added.
NewlyPublished == SubSeq(published', Len(published) + 1, Len(published'))

\* C7: a successful reservation of K seats publishes exactly one event on
\* the user's stream and exactly K on the event's stream, one for each
\* reserved seat and each exactly once.
C7_FanOutCount ==
    [][(CallStep /\ Last(calls').ok)
         => LET req == Last(calls').req
                new == NewlyPublished
            IN /\ Cardinality({j \in DOMAIN new : new[j].Stream = req.UserID}) = 1
               /\ Cardinality({j \in DOMAIN new : new[j].Stream = req.EventID})
                     = Len(req.SeatIDs)
               /\ \A i \in 1..Len(req.SeatIDs) :
                     Cardinality({j \in DOMAIN new : /\ new[j].Stream = req.EventID
                                                      /\ new[j].Event = req.SeatIDs[i]}) = 1]_vars

\* What the ReservationActor has handed or is handing to the PaymentActor.
SentToPayment ==
    paid \o (IF reservationActor.pc = "send" THEN <<reservationActor.tickets>> ELSE <<>>)

\* C8: a refused request publishes nothing, sends nothing to the
\* PaymentActor and leaves the ReservationActor at its receive, ready for the
\* next request; an accepted one sends exactly the batch ReserveTicket
\* returned, once.
C8_FailureDropsSuccessForwards ==
    [][/\ (CallStep /\ Refused(inventory, Last(calls').req))
            => /\ published' = published
               /\ SentToPayment' = SentToPayment
               /\ reservationActor'.pc = "recv"
               /\ ~crashed'
       /\ (CallStep /\ ~Refused(inventory, Last(calls').req))
            => /\ SentToPayment' = Append(SentToPayment, Last(calls').tickets)
               /\ reservationActor' = [pc |-> "send", tickets |-> Last(calls').tickets]
       /\ (SentToPayment = SuccessfulBatches(Len(calls)))']_vars

\* A refused request was followed by an accepted one whose batch reached the
\* PaymentActor.
C8_Witness ==
    /\ Len(calls) >= 2
    /\ ~calls[1].ok
    /\ calls[2].ok
    /\ paid = <<calls[2].tickets>>
    /\ published # <<>>

\* --------------------------------------- claims on SpecConc and SpecRead
Range(q) == {q[i] : i \in DOMAIN q}

BothReturned == \A t \in Threads : thr[t].pc = "done"

\* Both calls name the same known event and only seats that exist in it
\* (all Available when the calls are issued).
BothOnSeededSeats ==
    /\ thr["g1"].eventID = thr["g2"].eventID
    /\ HasKey(inventory.events, thr["g1"].eventID)
    /\ \A t \in Threads : Range(thr[t].seatIDs) \subseteq SeededSeatIDs

Overlapping == Range(thr["g1"].seatIDs) \cap Range(thr["g2"].seatIDs) # {}

Other(t) == CHOOSE o \in Threads : o # t

\* While a goroutine is about to release the mutex, the inventory and its
\* result are what ReserveTicket as one step makes of the inventory it
\* locked.
LockedCallIsOneStep ==
    \A t \in Threads :
        thr[t].pc = "unlock" =>
            LET r == ReserveTicket(stable, thr[t].userID, thr[t].eventID, thr[t].seatIDs)
            IN inventory = r.inv /\ thr[t].tickets = r.tickets /\ thr[t].ok = r.ok

\* C3: of two concurrent calls whose seat lists overlap, over seats that all
\* exist and are Available, exactly one succeeds in full, namely the one that
\* locked first, and the other fails and changes nothing.
C3_OverlapOneWinner ==
    (BothReturned /\ BothOnSeededSeats /\ Overlapping) =>
        LET w == lockOrder[1]
            l == Other(w)
            seats == inventory.events[thr[w].eventID].Seats
        IN /\ Len(lockOrder) = 2
           /\ thr[w].ok /\ ~thr[l].ok
           /\ Len(thr[w].tickets) = Len(thr[w].seatIDs)
           /\ thr[l].tickets = <<>>
           /\ \A s \in DOMAIN seats :
                 seats[s].Status = (IF s \in Range(thr[w].seatIDs) THEN "Reserved" ELSE "Available")
           /\ DOMAIN inventory.tickets = Range(thr[w].seatIDs)
           /\ \A k \in DOMAIN inventory.tickets : inventory.tickets[k].UserID = thr[w].userID
           /\ BasketOf(inventory.baskets, thr[w].userID) = thr[w].tickets
           /\ \A u \in UserIDs \ {thr[w].userID} : BasketOf(inventory.baskets, u) = <<>>

\* g2 locked first and won; g1 asked for a free seat and then a seat g2 took,
\* and has returned.
C3_Witness ==
    /\ BothReturned /\ BothOnSeededSeats /\ Overlapping
    /\ lockOrder = <<"g2", "g1">>
    /\ Len(thr["g1"].seatIDs) = 2
    /\ thr["g1"].seatIDs[1] \notin Range(thr["g2"].seatIDs)
    /\ thr["g1"].seatIDs[2] \in Range(thr["g2"].seatIDs)

\* C9: two concurrent calls for disjoint sets of Available seats of one event
\* both succeed; at the end every seat of both sets is Reserved and the two
\* users' baskets hold as many tickets as the two batches together.
C9_DisjointBothSucceed ==
    (BothReturned /\ BothOnSeededSeats /\ ~Overlapping) =>
        LET seats == inventory.events[thr["g1"].eventID].Seats
            users == {thr[t].userID : t \in Threads}
            held  == [u \in users |-> Len(BasketOf(inventory.baskets, u))]
            total == IF Cardinality(users) = 1 THEN held[thr["g1"].userID]
                     ELSE held[thr["g1"].userID] + held[thr["g2"].userID]
        IN /\ \A t \in Threads : thr[t].ok /\ Len(thr[t].tickets) = Len(thr[t].seatIDs)
           /\ \A t \in Threads : \A s \in Range(thr[t].seatIDs) : seats[s].Status = "Reserved"
           /\ total = Len(thr["g1"].seatIDs) + Len(thr["g2"].seatIDs)

\* Two users each reserved a seat of their own, g2 first, and both returned.
C9_Witness ==
    /\ BothReturned /\ BothOnSeededSeats /\ ~Overlapping
    /\ thr["g1"].userID # thr["g2"].userID
    /\ thr["g1"].seatIDs # <<>> /\ thr["g2"].seatIDs # <<>>
    /\ lockOrder = <<"g2", "g1">>

\* C10: a reader of GetEvent, GetBasket, GetSeatAsHTML or GetBasketAsHTML
\* never sees a reservation half done: what the accessor returns is what it
\* returns on the inventory as it was when the mutex was last released.
C10_ReadersSeeNoIntermediateState ==
    obs.call # "none" => obs.ret = obs.committed

\* The requests of the ReserveTicket calls so far, in call order.
CallRequests == [k \in 1..Len(calls) |-> calls[k].req]

\* C11: every stage handles one message at a time in arrival order:
\* ReserveTicket is called for the requests in the order the UserActor
\* accepted them, the PaymentActor receives the batches of the successful
\* calls in call order, and the NotificationActor receives the batches in the
\* order the PaymentActor did; no stage is more than one message ahead of
\* the next.
C11_OrderPreserved ==
    /\ IsPrefix(CallRequests, accepted)
    /\ Len(accepted) <= Len(calls) + 1
    /\ IsPrefix(paid, SuccessfulBatches(Len(calls)))
    /\ Len(SuccessfulBatches(Len(calls))) <= Len(paid) + 1
    /\ IsPrefix(delivered, paid)
    /\ Len(paid) <= Len(delivered) + 1

\* Two different requests went through all four stages, one after the other.
C11_Witness ==
    /\ Len(delivered) = 2
    /\ delivered[1] # <<>> /\ delivered[2] # <<>>
    /\ delivered[1][1].UserID # delivered[2][1].UserID
    /\ accepted[1] # accepted[2]
    /\ calls[1].tickets = delivered[1] /\ calls[2].tickets = delivered[2]

\* A request or a batch is held by a goroutine blocked on its mailbox send.
MessageInFlight ==
    \/ \E h \in 1..MaxRequests : handlers[h].pc = "send"
    \/ userActor.pc = "send"
    \/ reservationActor.pc = "send"
    \/ paymentActor.pc = "send"

\* Some stage goroutine can take its next message: the process is alive, a
\* sender is waiting and the receiver is at its receive.
StageCanStep ==
    /\ ~crashed
    /\ \/ AtReceive(userActor) /\ \E h \in 1..MaxRequests : handlers[h].pc = "send"
       \/ AtReceive(reservationActor) /\ userActor.pc = "send"
       \/ AtReceive(paymentActor) /\ reservationActor.pc = "send"
       \/ paymentActor.pc = "send"

\* The k-th accepted request has its final outcome: ReserveTicket refused
\* it, or the NotificationActor has printed the line for its batch.
Settled(k) ==
    /\ k <= Len(calls)
    /\ calls[k].ok => Len(SuccessfulBatches(k)) <= Len(notified)

\* C12: every request the UserActor accepted reaches its final outcome (its
\* reservation is refused, or the NotificationActor records its batch), and
\* the pipeline never holds a message while no stage can take a step. As
\* states: once no stage can step, nothing is in flight and every accepted
\* request is settled.
C12_AcceptedRequestsSettle ==
    ~StageCanStep =>
        /\ ~MessageInFlight
        /\ \A k \in DOMAIN accepted : Settled(k)

\* The message a goroutine blocked on its mailbox send still holds.
HeldBy(actor, msg) == IF actor.pc = "send" THEN <<msg>> ELSE <<>>

\* The handlers whose send the UserActor has completed.
PastSend == {h \in 1..MaxRequests : handlers[h].pc = "respond" \/
                                   (handlers[h].pc = "done" /\ handlers[h].resp # "400")}

\* C13: no message is lost, duplicated or altered between stages: what a
\* stage has taken is, in order and unchanged, what the next stage has taken
\* followed by the one message the stage still holds in its blocked send.
C13_MessagesConserved ==
    /\ Len(accepted) = Cardinality(PastSend)
    /\ \A h \in PastSend : \E k \in DOMAIN accepted : accepted[k] = handlers[h].req
    /\ accepted = CallRequests \o HeldBy(userActor, userActor.req)
    /\ SuccessfulBatches(Len(calls)) = paid \o HeldBy(reservationActor, reservationActor.tickets)
    /\ paid = delivered \o HeldBy(paymentActor, paymentActor.tickets)

\* A batch of two tickets reached the NotificationActor as ReserveTicket
\* returned it, while the second handler's request, a different one, waits
\* in the UserActor's blocked send.
C13_Witness ==
    /\ Len(delivered) = 1
    /\ Len(delivered[1]) = 2
    /\ delivered[1] = calls[1].tickets
    /\ userActor.pc = "send"
    /\ userActor.req = handlers[2].req
    /\ userActor.req # accepted[1]

\* C14: a handler whose request the UserActor has taken can write its
\* acknowledgment at once, whatever the stages are doing and whether or not
\* ReserveTicket has run for the request; the acknowledgment is the same
\* text for every accepted request, and only accepted requests get it.
C14_AckOnAcceptance ==
    \A h \in 1..MaxRequests :
        /\ (handlers[h].pc = "respond" /\ ~crashed) => ENABLED ReserveHandlerRespond(h)
        /\ (handlers[h].pc = "done" /\ h \in PastSend)
              => handlers[h].resp = "Ticket request received"
        /\ handlers[h].resp = "Ticket request received"
              => \E k \in DOMAIN accepted : accepted[k] = handlers[h].req

\* The first handler has its acknowledgment while ReserveTicket has not yet
\* been called for any request and the second handler waits in its send.
C14_Witness ==
    /\ handlers[1].pc = "done"
    /\ handlers[1].resp = "Ticket request received"
    /\ calls = <<>>
    /\ userActor.pc = "send" /\ userActor.req = handlers[1].req
    /\ handlers[2].pc = "send"

\* The inventory as the k-th ReserveTicket call left it: only ReserveTicket
\* writes it, so it is what the next call found, or what is there now.
After(k) == IF k < Len(calls) THEN calls[k + 1].before ELSE inventory

\* C15: a refused request leaves the inventory as it found it, and a later
\* request of the same user for a known event whose seats all exist and are
\* Available at that time succeeds with one ticket per requested seat, all
\* of them Reserved afterwards.
C15_RetryAfterRejection ==
    \A k \in DOMAIN calls :
        ~calls[k].ok =>
            /\ calls[k].tickets = <<>>
            /\ After(k) = calls[k].before
            /\ \A j \in DOMAIN calls :
                  (k < j /\ calls[j].req.UserID = calls[k].req.UserID
                         /\ ~Refused(calls[j].before, calls[j].req))
                    => /\ calls[j].ok
                       /\ Len(calls[j].tickets) = Len(calls[j].req.SeatIDs)
                       /\ \A i \in 1..Len(calls[j].req.SeatIDs) :
                             After(j).events[calls[j].req.EventID]
                                 .Seats[calls[j].req.SeatIDs[i]].Status = "Reserved"

\* A user's request for two seats, one of them unknown, was refused; the
\* same user's next request, for the seat that does exist, was accepted.
C15_Witness ==
    /\ Len(calls) = 2
    /\ ~calls[1].ok /\ calls[2].ok
    /\ calls[1].req.UserID = calls[2].req.UserID
    /\ Len(calls[1].req.SeatIDs) = 2
    /\ calls[2].req.SeatIDs = <<calls[1].req.SeatIDs[1]>>
    /\ calls[1].req.EventID = calls[2].req.EventID
    /\ Len(BasketOf(inventory.baskets, calls[2].req.UserID)) = 1

\* C16: every batch the NotificationActor takes from its mailbox has at
\* least one ticket, all its tickets carry one user id, and the
\* NotificationActor prints a line for each batch and goes on running.
C16_BatchesNonEmptyOneUser ==
    /\ \A k \in DOMAIN delivered :
          /\ Len(delivered[k]) >= 1
          /\ \A i \in DOMAIN delivered[k] : delivered[k][i].UserID = delivered[k][1].UserID
    /\ Len(notified) = Len(delivered)
    /\ ~crashed

\* The number of Publish calls made for the first n ReserveTicket calls.
RECURSIVE PublishedUpTo(_)
PublishedUpTo(n) ==
    IF n = 0 THEN 0
    ELSE PublishedUpTo(n - 1) + (IF calls[n].ok THEN 1 + Len(calls[n].req.SeatIDs) ELSE 0)

\* A basket as the page shows it: one list item per ticket, row and number.
RECURSIVE BasketItems(_, _)
BasketItems(tickets, i) ==
    IF i > Len(tickets) THEN ""
    ELSE "<li>" \o SeedSeats[tickets[i].SeatID].Row \o "-"
         \o ToString(SeedSeats[tickets[i].SeatID].Seat) \o "</li>"
         \o BasketItems(tickets, i + 1)

\* A seat button with the given status.
SeatButton(seatID, status) ==
    "<button class=\"" \o status \o "\" data-seat-id=\"" \o seatID
    \o "\" sse-swap=\"" \o seatID \o "\">" \o ToString(SeedSeats[seatID].Seat) \o "</button>"

\* C17: the Publish calls of the k-th ReserveTicket call, when it succeeds,
\* are all made before the next call: first the user's basket, rendered from
\* the tickets of that user's successful calls up to and including the k-th
\* and none after, then every requested seat rendered as Reserved; a
\* refused call publishes nothing.
C17_PublishedStateIsCurrent ==
    /\ Len(published) = PublishedUpTo(Len(calls))
    /\ \A k \in DOMAIN calls :
          calls[k].ok =>
              LET req  == calls[k].req
                  base == PublishedUpTo(k - 1)
              IN /\ published[base + 1] =
                       [Stream |-> req.UserID, Event |-> "reservation",
                        Data |-> BasketItems(ReturnedTo(req.UserID, k), 1)]
                 /\ \A i \in 1..Len(req.SeatIDs) :
                       published[base + 1 + i] =
                           [Stream |-> req.EventID, Event |-> req.SeatIDs[i],
                            Data |-> SeatButton(req.SeatIDs[i], "Reserved")]

\* One user reserved a seat and then the other seat: the second basket
\* event shows both tickets, the first one only the first.
C17_Witness ==
    /\ Len(calls) = 2
    /\ calls[1].ok /\ calls[2].ok
    /\ calls[1].req.UserID = calls[2].req.UserID
    /\ Len(calls[1].req.SeatIDs) = 1 /\ Len(calls[2].req.SeatIDs) = 1
    /\ Len(published) = 4
    /\ published[1].Data = BasketItems(calls[1].tickets, 1)
    /\ published[3].Data = BasketItems(calls[1].tickets \o calls[2].tickets, 1)
    /\ published[1].Data # published[3].Data

\* From inventory a to inventory b nothing reserved is undone: every seat
\* Reserved in a is Reserved in b, every ticket of a is in b with the same
\* user, event and seat, and every basket of a is a prefix of its basket in b.
NothingUndone(a, b) ==
    /\ \A e \in DOMAIN a.events :
          /\ e \in DOMAIN b.events
          /\ \A s \in DOMAIN a.events[e].Seats :
                a.events[e].Seats[s].Status = "Reserved"
                  => /\ s \in DOMAIN b.events[e].Seats
                     /\ b.events[e].Seats[s].Status = "Reserved"
    /\ \A id \in DOMAIN a.tickets :
          /\ id \in DOMAIN b.tickets
          /\ b.tickets[id].UserID = a.tickets[id].UserID
          /\ b.tickets[id].EventID = a.tickets[id].EventID
          /\ b.tickets[id].SeatID = a.tickets[id].SeatID
    /\ \A u \in DOMAIN a.baskets :
          /\ u \in DOMAIN b.baskets
          /\ IsPrefix(a.baskets[u], b.baskets[u])

\* C18: in every step a Reserved seat stays Reserved (none goes back to
\* Available), every ticket stays in the ticket set with its user, event and
\* seat, and every basket keeps the tickets it had.
C18_ReservationIsPermanent == [][NothingUndone(inventory, inventory')]_vars

\* Two users hold one ticket each, both seats are Reserved, and both
\* batches have gone through the whole pipeline.
C18_Witness ==
    /\ Len(calls) = 2 /\ calls[1].ok /\ calls[2].ok
    /\ calls[1].req.UserID # calls[2].req.UserID
    /\ Cardinality(DOMAIN inventory.tickets) = 2
    /\ \A u \in UserIDs : Len(BasketOf(inventory.baskets, u)) = 1
    /\ \A s \in SeededSeatIDs : inventory.events["event_1"].Seats[s].Status = "Reserved"
    /\ Len(notified) = 2

\* C19: a successful ReserveTicket call leaves alone what its request does
\* not name: the set of events, the seat ids of every event, every other
\* event as a whole, the name of its own event, every seat of its event that
\* is not in the request, and every other user's basket.
C19_SuccessChangesOnlyRequested ==
    \A k \in DOMAIN calls :
        calls[k].ok =>
            LET a   == calls[k].before
                b   == After(k)
                req == calls[k].req
            IN /\ DOMAIN b.events = DOMAIN a.events
               /\ \A e \in DOMAIN a.events :
                     /\ DOMAIN b.events[e].Seats = DOMAIN a.events[e].Seats
                     /\ b.events[e].ID = a.events[e].ID
                     /\ b.events[e].Name = a.events[e].Name
                     /\ e # req.EventID => b.events[e] = a.events[e]
               /\ \A s \in DOMAIN a.events[req.EventID].Seats :
                     s \notin Range(req.SeatIDs)
                       => b.events[req.EventID].Seats[s] = a.events[req.EventID].Seats[s]
               /\ \A u \in (DOMAIN a.baskets) \cup (DOMAIN b.baskets) :
                     u # req.UserID => /\ u \in DOMAIN a.baskets
                                       /\ u \in DOMAIN b.baskets
                                       /\ b.baskets[u] = a.baskets[u]

\* After one user reserved a seat of event_2, another user reserved one seat
\* of event_1: the other seat of event_1 is still Available, and event_2 and
\* the first user's basket are as the first call left them.
C19_Witness ==
    /\ Len(calls) = 2 /\ calls[1].ok /\ calls[2].ok
    /\ calls[1].req.EventID = "event_2" /\ calls[2].req.EventID = "event_1"
    /\ calls[1].req.UserID # calls[2].req.UserID
    /\ Len(calls[1].req.SeatIDs) = 1 /\ Len(calls[2].req.SeatIDs) = 1
    /\ \E s \in SeededSeatIDs : inventory.events["event_1"].Seats[s].Status = "Available"
    /\ inventory.events["event_2"] = calls[2].before.events["event_2"]
    /\ Len(BasketOf(inventory.baskets, calls[1].req.UserID)) = 1

\* C20: the Event GetEvent returned is a snapshot: when GetEvent returned
\* while no reservation was at work, what is read through the returned value
\* later, whatever reservations were performed in between, is what it showed
\* when it was returned.
C20_ReturnedEventIsSnapshot ==
    (shown.pc = "done" /\ shown.quiet) => shown.page = shown.atReturn
====
